---- MODULE Spec2Model ----
(***************************************************************************)
(* Model of code_ast/main.py: the ast_parser entry point with its syntax   *)
(* error policy (ErrorVisitor / check_tree_for_errors) and the component   *)
(* extraction get_all_components.                                          *)
(*                                                                         *)
(* A tree is a record [parent, type] of two sequences indexed by node id.  *)
(* Node ids are the pre-order positions of the nodes (1 is the root), the  *)
(* children of a node are ordered by id.  A node type is the sequence of   *)
(* the words of its name, the name being the words joined by "_":          *)
(* <<"expression", "statement">> is "expression_statement".                *)
(***************************************************************************)
EXTENDS Integers, Sequences, FiniteSets

VARIABLES source_code, lang, syntax_error, tree, lead, pc, stack, visited,
          warnings, exception, result, root_node, subtree_roots

vars == <<source_code, lang, syntax_error, tree, lead, pc, stack, visited,
          warnings, exception, result, root_node, subtree_roots>>

(* ------------------------------ bounds --------------------------------- *)
MaxNodes == 4

MaxSrcLen == 2

(* ------------------------------ values --------------------------------- *)
None == 0

Whitespace == {" "}

Chars == {" ", "x"}

Sources == UNION {[1..n -> Chars] : n \in 0..MaxSrcLen}

Langs == {"guess", "python"}

Policies == {"raise", "warn", "ignore"}

ERROR == <<"ERROR">>

META_TYPES == {<<"string">>, <<"docstring">>, <<"comment">>,
               <<"class", "definition">>, <<"function", "definition">>}

ParserTypes == {ERROR, <<"identifier">>}

ComponentTypes == {<<"comment">>, <<"function", "definition">>,
                   <<"expression", "statement">>, <<"assignment">>,
                   <<"identifier">>}

NoTree == [parent |-> <<>>, type |-> <<>>]

NoException == [type |-> "none", node |-> None]

(* ------------------------------- trees --------------------------------- *)
Nodes(t) == 1..Len(t.parent)

RECURSIVE AncestorsOrSelf(_, _)
AncestorsOrSelf(p, n) == IF n = None THEN {} ELSE {n} \cup AncestorsOrSelf(p, p[n])

\* parent sequences of the ordered trees with n nodes numbered in pre-order:
\* a new node hangs below the previous node or one of its ancestors
Shapes(n) == {p \in [1..n -> 0..(n - 1)] :
                 /\ p[1] = None
                 /\ \A i \in 2..n : p[i] \in AncestorsOrSelf(p, i - 1)}

Trees(types) == UNION {{[parent |-> p, type |-> k] :
                           p \in Shapes(n), k \in [1..n -> types]} :
                       n \in 1..MaxNodes}

\* node.children
children(t, n) == SelectSeq([i \in 1..Len(t.parent) |-> i],
                            LAMBDA i : t.parent[i] = n)

Descendants(t, n) == {m \in Nodes(t) : n \in AncestorsOrSelf(t.parent, m)}

RECURSIVE SumWidth(_, _, _, _)
RECURSIVE width(_, _, _)
\* number of source positions a node spans: a leaf spans one position, an
\* inner node spans l positions of its own followed by its children
width(t, l, n) == IF Len(children(t, n)) = 0 THEN 1
                  ELSE l + SumWidth(t, l, children(t, n), Len(children(t, n)))

SumWidth(t, l, ch, k) == IF k = 0 THEN 0
                         ELSE SumWidth(t, l, ch, k - 1) + width(t, l, ch[k])

RECURSIVE start_byte(_, _, _)
start_byte(t, l, n) ==
    IF t.parent[n] = None THEN 0
    ELSE LET sib == SelectSeq(children(t, t.parent[n]), LAMBDA m : m < n)
         IN  start_byte(t, l, t.parent[n]) + l + SumWidth(t, l, sib, Len(sib))

end_byte(t, l, n) == start_byte(t, l, n) + width(t, l, n)

(* ------------------------------ strings -------------------------------- *)
RECURSIVE lstrip(_)
lstrip(s) == IF s # <<>> /\ Head(s) \in Whitespace THEN lstrip(Tail(s)) ELSE s

RECURSIVE rstrip(_)
rstrip(s) == IF s # <<>> /\ s[Len(s)] \in Whitespace
             THEN rstrip(SubSeq(s, 1, Len(s) - 1)) ELSE s

strip(s) == rstrip(lstrip(s))

\* type.endswith("_statement")
endswith_statement(type) == Len(type) >= 2 /\ type[Len(type)] = "statement"

(* --------------------------- ast_parser -------------------------------- *)
InitParser ==
    /\ source_code \in Sources
    /\ lang \in Langs
    /\ syntax_error \in Policies
    /\ tree = NoTree
    /\ lead = 0
    /\ pc = "ast_parser"
    /\ stack = <<>>
    /\ visited = <<>>
    /\ warnings = <<>>
    /\ exception = NoException
    /\ result = "none"
    /\ root_node = None
    /\ subtree_roots = <<>>

inputs == <<source_code, lang, syntax_error>>

extraction == <<lead, root_node, subtree_roots>>

Raise(type, node) ==
    /\ exception' = [type |-> type, node |-> node]
    /\ pc' = "done"

\* if len(source_code.strip()) == 0: raise ValueError
EmptyCheck ==
    /\ pc = "ast_parser"
    /\ IF Len(strip(source_code)) = 0
       THEN Raise("ValueError", None)
       ELSE pc' = "lang" /\ UNCHANGED exception
    /\ UNCHANGED <<inputs, tree, stack, visited, warnings, result, extraction>>

\* variant: the detection returns a language instead of raising
_lang_detect_returns ==
    pc' = "parse" /\ UNCHANGED exception

\* _lang_detect always raises NotImplementedError
_lang_detect ==
    Raise("NotImplementedError", None)

\* if lang == "guess": lang = _lang_detect(source_code)
LangCheck ==
    /\ pc = "lang"
    /\ IF lang = "guess"
       THEN _lang_detect
       ELSE pc' = "parse" /\ UNCHANGED exception
    /\ UNCHANGED <<inputs, tree, stack, visited, warnings, result, extraction>>

\* tree, code = parser.parse(source_code): the parser is external, it may
\* return any tree
Parse ==
    /\ pc = "parse"
    /\ \E t \in Trees(ParserTypes) : tree' = t
    /\ pc' = "check"
    /\ UNCHANGED <<inputs, stack, visited, warnings, exception, result, extraction>>

\* variant: no short-circuit, the tree is walked under every policy
check_tree_for_errors_always_walks ==
    /\ pc = "check"
    /\ pc' = "walk" /\ stack' = <<1>>
    /\ UNCHANGED <<inputs, tree, visited, warnings, exception, result, extraction>>

\* check_tree_for_errors(tree, mode): returns at once under "ignore",
\* otherwise starts the ErrorVisitor at the root
check_tree_for_errors ==
    /\ pc = "check"
    /\ IF syntax_error = "ignore"
       THEN pc' = "return" /\ UNCHANGED stack
       ELSE pc' = "walk" /\ stack' = <<1>>
    /\ UNCHANGED <<inputs, tree, visited, warnings, exception, result, extraction>>

\* variant: only the first problem is logged
warn_syntax_error_once(node) ==
    /\ warnings' = IF warnings = <<>> THEN <<node>> ELSE warnings
    /\ UNCHANGED exception

warn_syntax_error(node) ==
    /\ warnings' = Append(warnings, node)
    /\ UNCHANGED exception

raise_syntax_error(node) ==
    /\ exception' = [type |-> "SyntaxError", node |-> node]
    /\ UNCHANGED warnings

\* variant: the two policies are tested in the wrong order of severity, an
\* error is only logged under "raise"
visit_ERROR_logs_only(node) ==
    IF syntax_error \in {"raise", "warn"} THEN warn_syntax_error(node)
    ELSE UNCHANGED <<warnings, exception>>

\* ErrorVisitor.visit_ERROR
visit_ERROR(node) ==
    IF syntax_error = "raise" THEN raise_syntax_error(node)
    ELSE IF syntax_error = "warn" THEN warn_syntax_error(node)
    ELSE UNCHANGED <<warnings, exception>>

\* one step of the visitor's walk: the node on top of the stack is handed to
\* the handler of its type (only ERROR has one), then its children are
\* walked, left to right, before the rest of the stack
Visit ==
    /\ pc = "walk"
    /\ stack # <<>>
    /\ LET node == Head(stack) IN
         /\ visited' = Append(visited, node)
         /\ IF tree.type[node] = ERROR
            THEN visit_ERROR(node)
            ELSE UNCHANGED <<warnings, exception>>
         /\ IF exception' # NoException
            THEN pc' = "done" /\ UNCHANGED stack
            ELSE pc' = "walk" /\ stack' = children(tree, node) \o Tail(stack)
    /\ UNCHANGED <<inputs, tree, result, extraction>>

WalkDone ==
    /\ pc = "walk"
    /\ stack = <<>>
    /\ pc' = "return"
    /\ UNCHANGED <<inputs, tree, stack, visited, warnings, exception, result, extraction>>

\* return SourceCodeAST(config, tree, code)
Return ==
    /\ pc = "return"
    /\ result' = "wrapper"
    /\ pc' = "done"
    /\ UNCHANGED <<inputs, tree, stack, visited, warnings, exception, extraction>>

Next ==
    \/ EmptyCheck
    \/ LangCheck
    \/ Parse
    \/ check_tree_for_errors
    \/ Visit
    \/ WalkDone
    \/ Return

Spec == InitParser /\ [][Next]_vars

(* ------------------------ get_all_components --------------------------- *)
RECURSIVE collapse(_, _)
\* while len(root_node.children) == 1: root_node = root_node.children[0]
collapse(t, n) == IF Len(children(t, n)) = 1
                  THEN collapse(t, children(t, n)[1])
                  ELSE n

\* variant: a childless root is a component as well
is_component_root_or_leaf(t, n) ==
    \/ t.type[n] \in META_TYPES
    \/ endswith_statement(t.type[n])
    \/ Len(children(t, n)) = 0

\* root_node.type in META_TYPES or root_node.type.endswith("_statement")
is_component_root(t, n) ==
    t.type[n] \in META_TYPES \/ endswith_statement(t.type[n])

\* variant: the statement test is made on the child
is_atomic_child_own_type(t, root, child) ==
    \/ Len(children(t, child)) = 0
    \/ t.type[child] \in META_TYPES
    \/ endswith_statement(t.type[child])

\* variant: every child is appended
is_atomic_child_always(t, root, child) == TRUE

\* the test of the loop: the child is a leaf, or of a meta type, or the
\* PARENT is a statement
is_atomic_child(t, root, child) ==
    \/ Len(children(t, child)) = 0
    \/ t.type[child] \in META_TYPES
    \/ endswith_statement(t.type[root])

RECURSIVE get_all_components(_, _)
\* variant: the child is appended and its components are added too
components_of_child_both(t, root, child) ==
    IF is_atomic_child(t, root, child)
    THEN <<child>>
    ELSE <<child>> \o get_all_components(t, child)

\* the body of the loop: append the child or extend by its components
components_of_child(t, root, child) ==
    IF is_atomic_child(t, root, child)
    THEN <<child>>
    ELSE get_all_components(t, child)

RECURSIVE loop(_, _, _, _)
\* for i, child in enumerate(children), from the i-th child on
loop(t, root, ch, i) ==
    IF i > Len(ch) THEN <<>>
    ELSE components_of_child(t, root, ch[i]) \o loop(t, root, ch, i + 1)

get_all_components(t, root_node_) ==
    IF root_node_ = None THEN <<>>
    ELSE LET root == collapse(t, root_node_) IN
         IF is_component_root(t, root) THEN <<root>>
         ELSE loop(t, root, children(t, root), 1)

InitComponents ==
    /\ source_code = <<>>
    /\ lang = "python"
    /\ syntax_error = "ignore"
    /\ tree \in Trees(ComponentTypes)
    /\ lead \in {0, 1}
    /\ pc = "idle"
    /\ stack = <<>>
    /\ visited = <<>>
    /\ warnings = <<>>
    /\ exception = NoException
    /\ result = "none"
    /\ root_node = None
    /\ subtree_roots = <<>>

\* a call get_all_components(node) on None or on any node of the tree
CallGetAllComponents ==
    /\ pc = "idle"
    /\ \E n \in {None} \cup Nodes(tree) :
         /\ root_node' = n
         /\ subtree_roots' = get_all_components(tree, n)
    /\ pc' = "returned"
    /\ UNCHANGED <<inputs, tree, lead, stack, visited, warnings, exception, result>>

NextComponents ==
    CallGetAllComponents

SpecComponents == InitComponents /\ [][NextComponents]_vars

(* ============================ properties =============================== *)
Range(s) == {s[i] : i \in 1..Len(s)}

ErrorNodes(t) == {n \in Nodes(t) : t.type[n] = ERROR}

\* the first ERROR node in pre-order (node ids are pre-order positions)
FirstError(t) == CHOOSE n \in ErrorNodes(t) : \A m \in ErrorNodes(t) : n <= m

Parsed == tree # NoTree

\* C1: under policy "raise", a tree with an ERROR node makes the call fail
\* with a SyntaxError for the first ERROR node in pre-order; the walk has
\* visited exactly the nodes up to that one, nothing is logged and no
\* wrapper is returned.
C1_RaiseFirstError ==
    (pc = "done" /\ Parsed /\ syntax_error = "raise" /\ ErrorNodes(tree) # {})
    => /\ exception = [type |-> "SyntaxError", node |-> FirstError(tree)]
       /\ visited = [i \in 1..FirstError(tree) |-> i]
       /\ warnings = <<>>
       /\ result = "none"

C1_Witness ==
    /\ pc = "done" /\ syntax_error = "raise"
    /\ Cardinality(ErrorNodes(tree)) >= 2
    /\ FirstError(tree) > 1
    /\ exception.type = "SyntaxError"
    /\ exception.node = FirstError(tree)

\* C2: under policy "warn" validation never fails; the call returns a
\* wrapper and exactly one warning is logged per ERROR node of the tree
\* (nested ones included), none for a node of another type.
C2_WarnCountsErrors ==
    (Parsed /\ syntax_error = "warn")
    => /\ exception = NoException
       /\ \A i \in 1..Len(warnings) : tree.type[warnings[i]] = ERROR
       /\ pc = "done" =>
            /\ result = "wrapper"
            /\ Len(warnings) = Cardinality(ErrorNodes(tree))
            /\ Range(warnings) = ErrorNodes(tree)

C2_Witness ==
    /\ pc = "done" /\ syntax_error = "warn" /\ result = "wrapper"
    /\ Len(warnings) >= 2
    /\ \E n \in ErrorNodes(tree) : tree.parent[n] \in ErrorNodes(tree)
    /\ \E n \in Nodes(tree) : n \notin ErrorNodes(tree)

\* C3: under policy "ignore" no node is visited, nothing is raised or
\* logged, and ast_parser returns the wrapper.
C3_IgnoreSkipsValidation ==
    (Parsed /\ syntax_error = "ignore")
    => /\ visited = <<>>
       /\ warnings = <<>>
       /\ exception = NoException
       /\ pc \notin {"walk"}
       /\ pc = "done" => result = "wrapper"

C3_Witness ==
    /\ pc = "done" /\ syntax_error = "ignore" /\ result = "wrapper"
    /\ Cardinality(ErrorNodes(tree)) >= 2

\* C7 as stated: with lang = "guess" the call fails with
\* NotImplementedError for every source string, blank ones included.
C7_GuessFailsForEverySource ==
    (pc = "done" /\ lang = "guess") => exception.type = "NotImplementedError"

\* C7 amended: with lang = "guess" the call fails with NotImplementedError
\* for every source string that is not blank, under every policy; a blank
\* source string fails with ValueError before the language is looked at.
C7_GuessFailsForNonBlankSource ==
    (pc = "done" /\ lang = "guess")
    => /\ result = "none"
       /\ ~Parsed
       /\ exception.type = IF strip(source_code) = <<>>
                            THEN "ValueError"
                            ELSE "NotImplementedError"

C7_Witness ==
    /\ pc = "done" /\ lang = "guess"
    /\ strip(source_code) # <<>> /\ strip(source_code) # source_code
    /\ exception.type = "NotImplementedError"

Returned == pc = "returned" /\ root_node # None

IsLeaf(t, n) == \A m \in Nodes(t) : t.parent[m] # n

IsMeta(t, n) == t.type[n] \in META_TYPES

IsStatement(t, n) == endswith_statement(t.type[n])

NumChildren(t, n) == Cardinality({m \in Nodes(t) : t.parent[m] = n})

RECURSIVE ChainEnd(_, _)
\* the node reached from n by following single-child links
ChainEnd(t, n) == IF NumChildren(t, n) = 1
                  THEN ChainEnd(t, CHOOSE m \in Nodes(t) : t.parent[m] = n)
                  ELSE n

RECURSIVE StatementOnChain(_, _)
\* the first statement met from n by following single-child links, if any
StatementOnChain(t, n) ==
    IF IsStatement(t, n) THEN n
    ELSE IF NumChildren(t, n) = 1
         THEN StatementOnChain(t, CHOOSE m \in Nodes(t) : t.parent[m] = n)
         ELSE None

\* C4: get_all_components of a node of a meta type is the one-element
\* sequence of that node, whatever its number of children.
C4_MetaNodeIsAtomic ==
    (Returned /\ IsMeta(tree, root_node)) => subtree_roots = <<root_node>>

\* C5: the returned spans do not overlap and are in source order, and no
\* returned node is an ancestor or a descendant of another one.
C5_DisjointInSourceOrder ==
    Returned =>
      \A i, j \in 1..Len(subtree_roots) :
        i < j => /\ end_byte(tree, lead, subtree_roots[i])
                      <= start_byte(tree, lead, subtree_roots[j])
                 /\ subtree_roots[i] \notin Descendants(tree, subtree_roots[j])
                 /\ subtree_roots[j] \notin Descendants(tree, subtree_roots[i])

C5_Witness ==
    /\ Returned /\ Len(subtree_roots) >= 2 /\ lead = 1
    /\ \E i \in 1..Len(subtree_roots) : tree.parent[subtree_roots[i]] # root_node
    /\ \E i \in 1..Len(subtree_roots) : tree.parent[subtree_roots[i]] = root_node

\* C6: when following single-child links from the root reaches a statement,
\* get_all_components(root) is the one-element sequence of that statement.
C6_StatementOnChainIsTheComponent ==
    (Returned /\ StatementOnChain(tree, root_node) # None)
    => subtree_roots = <<StatementOnChain(tree, root_node)>>

\* the per-child results of C9, concatenated from the i-th child on
RECURSIVE ChildrenConcat(_, _, _)
ChildrenConcat(t, ch, i) ==
    IF i > Len(ch) THEN <<>>
    ELSE (IF IsLeaf(t, ch[i]) \/ IsMeta(t, ch[i])
          THEN <<ch[i]>>
          ELSE get_all_components(t, ch[i])) \o ChildrenConcat(t, ch, i + 1)

\* C8: a childless node that is neither meta nor a statement yields the
\* empty sequence, and so does a root that chain-collapses to such a node;
\* as one of two or more children of a non-atomic parent the same node is
\* returned among the parent's components.
C8_ChildlessRootYieldsNothing ==
    Returned =>
      /\ (/\ IsLeaf(tree, ChainEnd(tree, root_node))
          /\ ~IsMeta(tree, ChainEnd(tree, root_node))
          /\ ~IsStatement(tree, ChainEnd(tree, root_node)))
         => subtree_roots = <<>>
      /\ (/\ NumChildren(tree, root_node) >= 2
          /\ ~IsMeta(tree, root_node)
          /\ ~IsStatement(tree, root_node))
         => \A c \in Nodes(tree) :
               (/\ tree.parent[c] = root_node
                /\ IsLeaf(tree, c)
                /\ ~IsMeta(tree, c)
                /\ ~IsStatement(tree, c))
               => /\ c \in Range(subtree_roots)
                  /\ get_all_components(tree, c) = <<>>

C8_Witness ==
    /\ Returned
    /\ NumChildren(tree, root_node) >= 2
    /\ ~IsMeta(tree, root_node) /\ ~IsStatement(tree, root_node)
    /\ \E c \in Range(subtree_roots) :
          /\ tree.parent[c] = root_node
          /\ IsLeaf(tree, c) /\ ~IsMeta(tree, c) /\ ~IsStatement(tree, c)
          /\ get_all_components(tree, c) = <<>>
    /\ \E r \in Nodes(tree) :
          /\ NumChildren(tree, r) = 1
          /\ IsLeaf(tree, ChainEnd(tree, r))
          /\ get_all_components(tree, r) = <<>>

\* C9: for a node with two or more children that is neither meta nor a
\* statement the result is the concatenation, child by child, of [c] for a
\* childless or meta child and of get_all_components(c) otherwise; for a
\* node with exactly one child it is get_all_components of that child.
C9_ConcatenationOfChildren ==
    Returned =>
      /\ (/\ NumChildren(tree, root_node) >= 2
          /\ ~IsMeta(tree, root_node)
          /\ ~IsStatement(tree, root_node))
         => subtree_roots = ChildrenConcat(tree, children(tree, root_node), 1)
      /\ NumChildren(tree, root_node) = 1
         => subtree_roots = get_all_components(tree, children(tree, root_node)[1])

C9_Witness ==
    /\ Returned
    /\ NumChildren(tree, root_node) >= 2
    /\ ~IsMeta(tree, root_node) /\ ~IsStatement(tree, root_node)
    /\ \E c \in Nodes(tree) :
          /\ tree.parent[c] = root_node
          /\ ~IsLeaf(tree, c) /\ ~IsMeta(tree, c)
          /\ get_all_components(tree, c) # <<>>
    /\ subtree_roots = ChildrenConcat(tree, children(tree, root_node), 1)

\* C10: every returned node is the starting node or one of its descendants,
\* and is childless, of a meta type, or a statement.
C10_ComponentsAreAtomicNodesOfSubtree ==
    Returned =>
      \A i \in 1..Len(subtree_roots) :
        /\ subtree_roots[i] \in Descendants(tree, root_node)
        /\ \/ IsLeaf(tree, subtree_roots[i])
           \/ IsMeta(tree, subtree_roots[i])
           \/ IsStatement(tree, subtree_roots[i])

C10_Witness ==
    /\ Returned
    /\ \E i \in 1..Len(subtree_roots) :
          IsMeta(tree, subtree_roots[i]) /\ ~IsLeaf(tree, subtree_roots[i])
    /\ \E i \in 1..Len(subtree_roots) :
          IsLeaf(tree, subtree_roots[i]) /\ ~IsMeta(tree, subtree_roots[i])
    /\ \E i \in 1..Len(subtree_roots) : subtree_roots[i] # root_node

====
